---------------------------- MODULE Spec2Model ----------------------------
(***************************************************************************)
(* A model of three pieces of the debugger core:                           *)
(*   - the location list reader (package loc: LoclistReader.Seek/Next),    *)
(*   - the goroutine decoder (package proc: parseG),                       *)
(*   - the queries derived from a decoded G (Go, UserCurrent, stkbar).     *)
(*                                                                         *)
(* 64-bit machine words are kept as little-endian byte sequences of        *)
(* length 8 (a uint32 as 4 bytes), so that widths, widening and the        *)
(* all-ones sentinels are exactly those of the code.                       *)
(***************************************************************************)
EXTENDS Integers, Sequences, FiniteSets, TLC

VARIABLES
    rd,       \* LoclistReader: [data, cur, ptrSz]
    ent,      \* LoclistEntry handed to Next: [lowpc, highpc, instr]
    ret,      \* outcome of the Next just run: "true" | "false" | "panic" ("none" after a Seek)
    enc,      \* history: the entries that were encoded into rd.data
    start,    \* history: offset of the encoded list in rd.data
    scan,     \* history: Next calls since Seek(start), -1 when not scanning
    prevCur,  \* history: rd.cur before the last Next
    pg,       \* parseG's argument and its collaborators' answers
    pgRes,    \* parseG's outcome
    gq,       \* the G record (and collaborators) a derived query runs on
    gqRes     \* the derived query's outcome

vars == <<rd, ent, ret, enc, start, scan, prevCur, pg, pgRes, gq, gqRes>>

Idle == "idle"

-----------------------------------------------------------------------------
(* Bounds of the model *)

MaxEntries == 2
MaxSeek == 1
LongLen == 257

-----------------------------------------------------------------------------
(* Bytes and words *)

Zeros(n) == [i \in 1..n |-> 0]
AllOnes(n) == [i \in 1..n |-> 255]

\* uint64(addr) for a little-endian byte sequence: zero extension to 8 bytes
U64(b) == b \o Zeros(8 - Len(b))

\* ^uint64(0)
MaxUint64 == AllOnes(8)

\* binary.LittleEndian.Uint16 of a 2-byte slice
Uint16(b) == b[1] + 256 * b[2]

-----------------------------------------------------------------------------
(* package loc *)

\* func NewLoclistReader(data, ptrSz): cur is the zero value
NewLoclistReader(data, ptrSz) == [data |-> data, cur |-> 0, ptrSz |-> ptrSz]

\* The zero LoclistEntry (a nil instr is the empty sequence)
ZeroEntry == [lowpc |-> Zeros(8), highpc |-> Zeros(8), instr |-> <<>>]

\* func (e *LoclistEntry) BaseAddressSelection() bool
BaseAddressSelection(e) == e.lowpc = MaxUint64

\* func (r *LoclistReader) read(sz): the slice expression panics when it
\* runs past the buffer (the buffer's capacity is taken to be its length);
\* the cursor moves only when it does not.
read(r, sz) ==
    IF r.cur + sz <= Len(r.data)
    THEN [ok |-> TRUE,
          data |-> SubSeq(r.data, r.cur + 1, r.cur + sz),
          r |-> [r EXCEPT !.cur = r.cur + sz]]
    ELSE [ok |-> FALSE, data |-> <<>>, r |-> r]

oneAddrNoWiden(r) ==
    LET x == read(r, r.ptrSz) IN
    IF r.ptrSz \in {4, 8} /\ x.ok
    THEN [ok |-> TRUE, val |-> U64(x.data), r |-> x.r]
    ELSE [ok |-> FALSE, val |-> Zeros(8), r |-> r]

\* func (r *LoclistReader) oneAddr() uint64
oneAddr(r) ==
    CASE r.ptrSz = 4 ->
           LET x == read(r, r.ptrSz) IN
           IF ~x.ok THEN [ok |-> FALSE, val |-> Zeros(8), r |-> r]
           ELSE IF x.data = AllOnes(4)
                THEN [ok |-> TRUE, val |-> MaxUint64, r |-> x.r]
                ELSE [ok |-> TRUE, val |-> U64(x.data), r |-> x.r]
      [] r.ptrSz = 8 ->
           LET x == read(r, r.ptrSz) IN
           IF ~x.ok THEN [ok |-> FALSE, val |-> Zeros(8), r |-> r]
           ELSE [ok |-> TRUE, val |-> x.data, r |-> x.r]
      [] OTHER -> [ok |-> FALSE, val |-> Zeros(8), r |-> r]  \* panic("bad address size")

readInstrLowByteLen(r) ==
    LET l == read(r, 2) IN
    IF ~l.ok THEN [ok |-> FALSE, data |-> <<>>, r |-> r]
    ELSE LET d == read(l.r, l.data[1]) IN
         IF ~d.ok THEN [ok |-> FALSE, data |-> <<>>, r |-> l.r]
         ELSE d

\* Next, lines 87-88: the 16-bit length, then that many bytes
readInstr(r) ==
    LET l == read(r, 2) IN
    IF ~l.ok THEN [ok |-> FALSE, data |-> <<>>, r |-> r]
    ELSE LET d == read(l.r, Uint16(l.data)) IN
         IF ~d.ok THEN [ok |-> FALSE, data |-> <<>>, r |-> l.r]
         ELSE d

IsTerminatorAfterLen(e, r) ==
    LET l == read(r, 2) IN
    [term |-> e.lowpc = Zeros(8) /\ e.highpc = Zeros(8),
     r |-> IF l.ok THEN l.r ELSE r]

\* Next, lines 78-80: the (0,0) test, which reads nothing further
IsTerminator(e, r) ==
    [term |-> e.lowpc = Zeros(8) /\ e.highpc = Zeros(8), r |-> r]

\* func (r *LoclistReader) Next(e *LoclistEntry) bool
\* The outcome: the reader, the entry and what was returned. A panic leaves
\* what was assigned before it.
NextOp(r, e) ==
    LET a1 == oneAddr(r) IN
    IF ~a1.ok THEN [r |-> a1.r, e |-> e, ret |-> "panic"]
    ELSE
    LET e1 == [e EXCEPT !.lowpc = a1.val]
        a2 == oneAddr(a1.r) IN
    IF ~a2.ok THEN [r |-> a2.r, e |-> e1, ret |-> "panic"]
    ELSE
    LET e2 == [e1 EXCEPT !.highpc = a2.val]
        t  == IsTerminator(e2, a2.r) IN
    IF t.term THEN [r |-> t.r, e |-> e2, ret |-> "false"]
    ELSE IF BaseAddressSelection(e2)
    THEN [r |-> t.r, e |-> [e2 EXCEPT !.instr = <<>>], ret |-> "true"]
    ELSE
    LET i == readInstr(t.r) IN
    IF ~i.ok THEN [r |-> i.r, e |-> e2, ret |-> "panic"]
    ELSE [r |-> i.r, e |-> [e2 EXCEPT !.instr = i.data], ret |-> "true"]

-----------------------------------------------------------------------------
(* The binary layout the reader consumes: what an encoder writes *)

LE16(n) == <<n % 256, (n \div 256) % 256>>

EncodeEntry(en) ==
    en.low \o en.high \o
    (IF en.base THEN <<>> ELSE LE16(Len(en.instr)) \o en.instr)

RECURSIVE EncodeList(_, _)
EncodeList(list, w) ==
    IF list = <<>> THEN Zeros(w) \o Zeros(w)
    ELSE EncodeEntry(Head(list)) \o EncodeList(Tail(list), w)

\* Address values of width w used to build lists
HalfOnes == AllOnes(4) \o Zeros(4)
One(w) == <<1>> \o Zeros(w - 1)
LowAddrs(w) == {Zeros(w), IF w = 8 THEN HalfOnes ELSE One(w)}
HighAddrs(w) == {One(w), AllOnes(w)}
ShortExprs == {<<>>, <<7, 9>>}
LongExpr == [i \in 1..LongLen |-> 1]

NormalEntries(w) ==
    {[base |-> FALSE, low |-> l, high |-> h, instr |-> x] :
        l \in LowAddrs(w), h \in HighAddrs(w), x \in ShortExprs}
    \cup {[base |-> FALSE, low |-> Zeros(w), high |-> One(w), instr |-> LongExpr]}
BaseEntries(w) ==
    {[base |-> TRUE, low |-> AllOnes(w), high |-> h, instr |-> <<>>] :
        h \in {Zeros(w), AllOnes(w)}}
WellFormed(w) == NormalEntries(w) \cup BaseEntries(w)

RECURSIVE SeqsUpTo(_, _)
SeqsUpTo(S, n) ==
    IF n = 0 THEN {<<>>}
    ELSE LET shorter == SeqsUpTo(S, n - 1) IN
         shorter \cup {Append(s, x) : s \in {t \in shorter : Len(t) = n - 1}, x \in S}

\* One buffer backs several lists: bytes before the list and bytes after it
Pad == <<0, 255, 3>>
Trail == <<5, 0, 0>>

-----------------------------------------------------------------------------
(* Specification of the location list reader *)

OthersIdleLoc == pg = Idle /\ pgRes = Idle /\ gq = Idle /\ gqRes = Idle

InitLoclist ==
    /\ \E w \in {2, 4, 8} :
       \E list \in (IF w = 2 THEN {<<>>} ELSE SeqsUpTo(WellFormed(w), MaxEntries)) :
          /\ rd = NewLoclistReader(Pad \o EncodeList(list, w) \o Trail, w)
          /\ enc = list
          /\ start = Len(Pad)
    /\ ent = ZeroEntry
    /\ ret = "none"
    /\ scan = -1
    /\ prevCur = 0
    /\ OthersIdleLoc

SeekOffsets == (0..MaxSeek) \cup {start}

\* func (r *LoclistReader) Seek(off int)
Seek ==
    \E off \in SeekOffsets :
        /\ off <= Len(rd.data)
        /\ rd' = [rd EXCEPT !.cur = off]
        /\ scan' = IF off = start THEN 0 ELSE -1
        /\ ret' = "none"
        /\ UNCHANGED <<ent, enc, start, prevCur, pg, pgRes, gq, gqRes>>

Next_ ==
    LET o == NextOp(rd, ent) IN
        /\ rd' = o.r
        /\ ent' = o.e
        /\ ret' = o.ret
        /\ prevCur' = rd.cur
        /\ scan' = IF scan >= 0 /\ scan <= Len(enc) THEN scan + 1 ELSE -1
        /\ UNCHANGED <<enc, start, pg, pgRes, gq, gqRes>>

NextLoclist == Seek \/ Next_

SpecLoclist == InitLoclist /\ [][NextLoclist]_vars

-----------------------------------------------------------------------------
(* Properties of the location list reader *)

PtrWidth == rd.ptrSz
Scanning == PtrWidth \in {4, 8} /\ scan >= 1

\* What a w-byte address is returned as: zero-extended, except that the
\* 32-bit all-ones value comes back as the 64-bit all-ones value.
Widened(w, b) == IF w = 4 /\ b = AllOnes(4) THEN MaxUint64 ELSE U64(b)

\* C1 as stated: after Seek(start), the k-th Next returns true with LowPC,
\* HighPC and Instr equal to the k-th encoded entry's lowAddr, highAddr and
\* expression, and the Next after the last entry returns false.
C1_RoundTripExact ==
    Scanning =>
        /\ scan <= Len(enc) =>
              /\ ret = "true"
              /\ ent.lowpc = U64(enc[scan].low)
              /\ ent.highpc = U64(enc[scan].high)
              /\ ent.instr = enc[scan].instr
        /\ scan = Len(enc) + 1 => ret = "false"

\* C1 amended: the same round trip, where an encoded 32-bit address of
\* 0xFFFFFFFF (width 4, either address) is returned as 0xFFFFFFFFFFFFFFFF and
\* every other address is returned zero-extended.
C1_RoundTrip ==
    Scanning =>
        /\ scan <= Len(enc) =>
              /\ ret = "true"
              /\ ent.lowpc = Widened(PtrWidth, enc[scan].low)
              /\ ent.highpc = Widened(PtrWidth, enc[scan].high)
              /\ ent.instr = enc[scan].instr
        /\ scan = Len(enc) + 1 => ret = "false"

C1_Witness ==
    /\ PtrWidth = 4 /\ Len(enc) = 2 /\ scan = 2 /\ ret = "true"
    /\ enc[1].instr = LongExpr /\ ent.instr = <<7, 9>>
    /\ enc[2].high = AllOnes(4) /\ ent.highpc = MaxUint64

\* The bytes the last Next found at the cursor
Avail(n) == prevCur + n <= Len(rd.data)
LowBytes == SubSeq(rd.data, prevCur + 1, prevCur + PtrWidth)
HighBytes == SubSeq(rd.data, prevCur + PtrWidth + 1, prevCur + 2 * PtrWidth)

\* C2: when the two address-sized values at the cursor are both zero, Next
\* returns false and the cursor has advanced by exactly 2*w bytes, so that
\* the next read starts right after the terminator.
C2_Terminator ==
    (/\ ret # "none" /\ PtrWidth \in {4, 8} /\ Avail(2 * PtrWidth)
     /\ LowBytes = Zeros(PtrWidth) /\ HighBytes = Zeros(PtrWidth))
    => ret = "false" /\ rd.cur = prevCur + 2 * PtrWidth

C2_Witness ==
    /\ ret = "false" /\ scan = Len(enc) + 1 /\ Len(enc) >= 1
    /\ rd.cur = prevCur + 2 * PtrWidth /\ rd.cur < Len(rd.data)

\* C3 as stated: an entry returned by Next is a base address selection
\* exactly when the lowAddr bytes read are all ones at the configured width;
\* such an entry is returned (true) with an empty expression, its HighPC
\* being the highAddr read (the new base), and 2*w bytes consumed, for w = 4
\* as for w = 8.
C3_BaseAddressSelectionExact ==
    (ret # "none" /\ PtrWidth \in {4, 8} /\ Avail(2 * PtrWidth)) =>
        /\ ret = "true" =>
              (BaseAddressSelection(ent) <=> LowBytes = AllOnes(PtrWidth))
        /\ LowBytes = AllOnes(PtrWidth) =>
              /\ ret = "true"
              /\ BaseAddressSelection(ent)
              /\ ent.instr = <<>>
              /\ ent.highpc = U64(HighBytes)
              /\ rd.cur = prevCur + 2 * PtrWidth

\* C3 amended: the same, where HighPC is the highAddr read zero-extended to
\* 64 bits, except that at w = 4 a highAddr of 0xFFFFFFFF is returned as
\* 0xFFFFFFFFFFFFFFFF.
C3_BaseAddressSelection ==
    (ret # "none" /\ PtrWidth \in {4, 8} /\ Avail(2 * PtrWidth)) =>
        /\ ret = "true" =>
              (BaseAddressSelection(ent) <=> LowBytes = AllOnes(PtrWidth))
        /\ LowBytes = AllOnes(PtrWidth) =>
              /\ ret = "true"
              /\ BaseAddressSelection(ent)
              /\ ent.instr = <<>>
              /\ ent.highpc = Widened(PtrWidth, HighBytes)
              /\ rd.cur = prevCur + 2 * PtrWidth

C3_Witness ==
    /\ PtrWidth = 4 /\ ret = "true" /\ BaseAddressSelection(ent)
    /\ LowBytes = AllOnes(4) /\ HighBytes = AllOnes(4)
    /\ ent.highpc = MaxUint64 /\ ent.instr = <<>>
    /\ rd.cur = prevCur + 8

\* The same bytes at width 8 are an ordinary range
C3_WitnessNotBase8 ==
    /\ PtrWidth = 8 /\ ret = "true" /\ ~BaseAddressSelection(ent)
    /\ LowBytes = HalfOnes

-----------------------------------------------------------------------------
(* package proc: collaborators of the goroutine decoder *)

\* A pointer or interface that may be nil: the empty set, or the set of the
\* one value it refers to
Nil == {}
Some(x) == {x}
The(o) == CHOOSE x \in o : TRUE

\* The nil error
NoErr == [type |-> "nil"]

\* Functions of the binary: [name, entry, end), as the symbol table has them
MainFn == [name |-> "main.main", entry |-> 4096, end |-> 4200]
WorkFn == [name |-> "main.work", entry |-> 20470, end |-> 20600]

\* bi.PCToFunc(pc): the function whose [entry, end) holds pc, if any
PCToFunc(fns, pc) ==
    IF \E f \in fns : f.entry <= pc /\ pc < f.end
    THEN Some(CHOOSE f \in fns : f.entry <= pc /\ pc < f.end)
    ELSE Nil

\* bi.PCToLine(pc): file, line and function of pc
PCToLine(fns, pc) ==
    LET fn == PCToFunc(fns, pc) IN
    IF fn = Nil THEN [File |-> "?", Line |-> 0, Fn |-> Nil]
    ELSE [File |-> "main.go", Line |-> 1 + (pc - The(fn).entry), Fn |-> fn]

\* The goroutine struct in target memory, as loadValue decodes it. The values
\* are within the int64 range, where constant.Int64Val and the conversion to
\* uint64 keep them as they are.
GStruct ==
    [goid |-> 7, pc |-> 4096, sp |-> 8192, bp |-> 12288,
     gopc |-> 20480, startpc |-> 4100, atomicstatus |-> 2,
     waitstring |-> "chan receive", waitcode |-> 14,
     hi |-> 51200, lo |-> 49152, stkbarPos |-> 1]

\* Variable.ConstDescr(): the description of a wait reason code
ConstDescr(code) == IF code = 14 THEN "waitReasonChanReceive" ELSE ""

\* v.structMember("stkbar"): the handle of the stkbar field
StkbarHandle == [Name |-> "stkbar"]

-----------------------------------------------------------------------------
(* parseG *)

\* binary.LittleEndian.Uint64(b): indexes b[7], so a shorter slice panics
Uint64(b) ==
    IF Len(b) < 8 THEN [panic |-> TRUE, val |-> Zeros(8)]
    ELSE [panic |-> FALSE, val |-> SubSeq(b, 1, 8)]

\* parseG, lines 143-154: the address of the g
\* kind: "ok" | "err" (ReadMemory failed) | "panic"
GAddr(h) ==
    IF h.ptrDepth = 0
    THEN [kind |-> "ok", gaddr |-> h.addr, log |-> <<>>]
    ELSE IF h.mem.err
    THEN [kind |-> "err", gaddr |-> h.addr, log |-> <<"ReadMemory">>]
    ELSE LET u == Uint64(h.mem.bytes) IN
         [kind |-> IF u.panic THEN "panic" ELSE "ok",
          gaddr |-> u.val, log |-> <<"ReadMemory">>]

\* parseG, lines 156-159: the thread identifier of ErrNoGoroutine
NoGoroutineTid(h) == IF h.isThread THEN h.tid ELSE 0

RECURSIVE Repeat(_, _)
Repeat(x, n) == IF n = 0 THEN <<>> ELSE <<x>> \o Repeat(x, n - 1)

\* parseG, lines 162-168: dereference while pointer typed, then loadValue
LoadLog(h) == Repeat("maybeDereference", h.ptrDepth) \o <<"loadValue">>

LoadFailedNever(h) == FALSE

\* parseG, line 169
LoadFailed(h) == h.unreadable # NoErr

ReadBPNoNilCheck(h) ==
    IF h.bp = "absent" THEN [panic |-> TRUE, val |-> 0]
    ELSE IF h.bp = "value" THEN [panic |-> FALSE, val |-> GStruct.bp]
    ELSE [panic |-> FALSE, val |-> 0]

\* parseG, lines 175-178
ReadBP(h) ==
    IF h.bp # "absent" /\ h.bp # "novalue"
    THEN [panic |-> FALSE, val |-> GStruct.bp]
    ELSE [panic |-> FALSE, val |-> 0]

\* parseG, lines 182-191: wrvar.Value is read through the handle that
\* fieldVariable returned, which is nil for a field the struct lacks
ReadWaitReason(h) ==
    IF h.waitreason = "absent" THEN [panic |-> TRUE, val |-> ""]
    ELSE IF h.waitreason = "novalue" THEN [panic |-> FALSE, val |-> ""]
    ELSE CASE h.waitreason = "string" ->
                [panic |-> FALSE, val |-> GStruct.waitstring]
           [] h.waitreason = "uint" ->
                [panic |-> FALSE, val |-> ConstDescr(GStruct.waitcode)]
           [] OTHER -> [panic |-> FALSE, val |-> ""]

\* parseG, lines 192-200
ReadStack(h) ==
    IF h.stack
    THEN [hi |-> IF h.hi THEN GStruct.hi ELSE 0,
          lo |-> IF h.lo THEN GStruct.lo ELSE 0]
    ELSE [hi |-> 0, lo |-> 0]

\* parseG, lines 202-207
ReadStkbar(h) ==
    [var |-> IF h.stkbar THEN Some(StkbarHandle) ELSE Nil,
     pos |-> IF h.stkbarPos THEN GStruct.stkbarPos ELSE 0]

FieldLogHead ==
    <<"field:sched", "field:sched.pc", "field:sched.sp", "field:sched.bp",
      "field:goid", "field:gopc", "field:startpc", "field:waitreason">>
FieldLogStack(h) ==
    <<"field:stack">> \o (IF h.stack THEN <<"field:stack.hi", "field:stack.lo">> ELSE <<>>)
FieldLogTail ==
    <<"structMember:stkbar", "field:stkbarPos", "field:atomicstatus", "PCToLine">>

NotCalled == [kind |-> "none", g |-> Nil, err |-> NoErr, log |-> <<>>]
Panicked(log) == [kind |-> "panic", g |-> Nil, err |-> NoErr, log |-> log]
Returned(g, err, log) == [kind |-> "return", g |-> g, err |-> err, log |-> log]

\* func parseG(v *Variable) (*G, error)
parseG(h) ==
    LET a == GAddr(h) IN
    IF a.kind = "err"
    THEN Returned(Nil, [type |-> "error derefing *G"], a.log)
    ELSE IF a.kind = "panic" THEN Panicked(a.log)
    ELSE IF a.gaddr = Zeros(8)
    THEN Returned(Nil, [type |-> "ErrNoGoroutine", tid |-> NoGoroutineTid(h)], a.log)
    ELSE
    LET log1 == a.log \o LoadLog(h) IN
    IF LoadFailed(h) THEN Returned(Nil, h.unreadable, log1)
    ELSE
    LET bp == ReadBP(h)
        wr == ReadWaitReason(h)
        st == ReadStack(h)
        sb == ReadStkbar(h)
        pc == GStruct.pc
    IN
    IF bp.panic THEN Panicked(log1 \o SubSeq(FieldLogHead, 1, 4))
    ELSE IF wr.panic THEN Panicked(log1 \o FieldLogHead)
    ELSE
    Returned(
        Some([ID |-> GStruct.goid,
         GoPC |-> GStruct.gopc,
         StartPC |-> GStruct.startpc,
         PC |-> pc,
         SP |-> GStruct.sp,
         BP |-> bp.val,
         WaitReason |-> wr.val,
         Status |-> GStruct.atomicstatus,
         CurrentLoc |-> [PC |-> pc] @@ PCToLine({MainFn, WorkFn}, pc),
         stkbarVar |-> sb.var,
         stkbarPos |-> sb.pos,
         stackhi |-> st.hi,
         stacklo |-> st.lo]),
        NoErr,
        log1 \o FieldLogHead \o FieldLogStack(h) \o FieldLogTail)

-----------------------------------------------------------------------------
(* Specification of parseG: every handle, then the call *)

MaxPtrDepth == 2

Unreadables == {[type |-> "unreadable", msg |-> "read out of bounds"],
                [type |-> "unreadable", msg |-> "nil pointer dereference"]}

\* mem.ReadMemory at the handle's address: an error, or ptrSize bytes
MemErr == [err |-> TRUE, bytes |-> <<>>]
MemBytes(b) == [err |-> FALSE, bytes |-> b]

\* The handle's type, address and memory
HandleParts ==
    {[ptrDepth |-> d, addr |-> a, mem |-> m, ptrSize |-> w, isThread |-> t, tid |-> 7] :
        d \in {0}, a \in {Zeros(8), One(8)}, m \in {MemErr}, w \in {4, 8}, t \in BOOLEAN}
    \cup UNION {
        {[ptrDepth |-> d, addr |-> a, mem |-> m, ptrSize |-> w, isThread |-> t, tid |-> 7] :
            d \in 1..MaxPtrDepth, a \in {Zeros(8), One(8)},
            m \in {MemErr, MemBytes(Zeros(w)), MemBytes(One(w))}, t \in BOOLEAN} :
        w \in {4, 8}}

\* The struct's layout: which version-dependent fields it has
NoFields ==
    [bp |-> "absent", stack |-> FALSE, hi |-> FALSE, lo |-> FALSE,
     stkbar |-> FALSE, stkbarPos |-> FALSE, waitreason |-> "absent"]
Layouts ==
    {[bp |-> b, stack |-> s, hi |-> hh, lo |-> ll, stkbar |-> sb, stkbarPos |-> sp,
      waitreason |-> wr] :
        b \in {"absent", "novalue", "value"}, s \in BOOLEAN, hh \in BOOLEAN,
        ll \in BOOLEAN, sb \in BOOLEAN, sp \in BOOLEAN,
        wr \in {"absent", "novalue", "string", "uint", "int"}}
LoadOutcomes ==
    {[unreadable |-> NoErr] @@ l : l \in {x \in Layouts : x.stack \/ (~x.hi /\ ~x.lo)}}
    \cup {[unreadable |-> u] @@ NoFields : u \in Unreadables}

OthersIdleG ==
    /\ rd = Idle /\ ent = Idle /\ ret = Idle /\ enc = Idle /\ start = Idle
    /\ scan = Idle /\ prevCur = Idle

InitParseG ==
    /\ pg \in {hp @@ lo : hp \in HandleParts, lo \in LoadOutcomes}
    /\ pgRes = NotCalled
    /\ gq = Idle /\ gqRes = Idle
    /\ OthersIdleG

ParseG ==
    /\ pgRes = NotCalled
    /\ pgRes' = parseG(pg)
    /\ UNCHANGED <<rd, ent, ret, enc, start, scan, prevCur, pg, gq, gqRes>>

NextParseG == ParseG

SpecParseG == InitParseG /\ [][NextParseG]_vars

-----------------------------------------------------------------------------
(* Properties of parseG *)

Called == pgRes.kind # "none"
Range(q) == {q[i] : i \in 1..Len(q)}
LoadRan == "loadValue" \in Range(pgRes.log)
\* Log entries that load or read the goroutine struct, or resolve its PC
StructReads(log) == Range(log) \ {"ReadMemory"}

\* The goroutine address of the handle: the pointer read at its address
\* when it is pointer typed, its own address otherwise
GoroutineAddrZero(h) ==
    \/ h.ptrDepth = 0 /\ h.addr = Zeros(8)
    \/ h.ptrDepth > 0 /\ ~h.mem.err /\ h.mem.bytes = Zeros(h.ptrSize)

\* C4: a handle whose goroutine address is zero, at either pointer width,
\* yields no record and ErrNoGoroutine carrying the thread's identifier
\* (0 when the memory is not a thread), without loading or reading the struct.
C4_NilGoroutine ==
    (Called /\ GoroutineAddrZero(pg)) =>
        /\ pgRes.kind = "return"
        /\ pgRes.g = Nil
        /\ pgRes.err = [type |-> "ErrNoGoroutine",
                        tid |-> IF pg.isThread THEN pg.tid ELSE 0]
        /\ StructReads(pgRes.log) = {}

\* What does hold: the same at the 8-byte pointer width and for handles
\* that are not pointer typed
C4_NilGoroutineWidth8 ==
    (Called /\ GoroutineAddrZero(pg) /\ (pg.ptrDepth = 0 \/ pg.ptrSize = 8)) =>
        /\ pgRes.kind = "return"
        /\ pgRes.g = Nil
        /\ pgRes.err = [type |-> "ErrNoGoroutine",
                        tid |-> IF pg.isThread THEN pg.tid ELSE 0]
        /\ StructReads(pgRes.log) = {}

\* The same handle with every version-dependent field present
AllPresent(h) ==
    [h EXCEPT !.bp = "value", !.stack = TRUE, !.hi = TRUE, !.lo = TRUE,
              !.stkbar = TRUE, !.stkbarPos = TRUE]
OptionalFields == {"BP", "stackhi", "stacklo", "stkbarVar", "stkbarPos"}

\* C5: with the struct loaded and its mandatory fields there, every
\* combination of present and absent bp, stack (hi, lo), stkbar and
\* stkbarPos decodes to a record and a nil error; an absent field leaves
\* BP = 0, stackhi = stacklo = 0, stkbarVar unset, stkbarPos = 0, and every
\* other field is what it is when the optional fields are all present.
C5_AbsentOptionalFields ==
    (Called /\ LoadRan /\ pg.unreadable = NoErr /\ pg.waitreason # "absent") =>
        /\ pgRes.kind = "return"
        /\ pgRes.err = NoErr
        /\ pgRes.g # Nil
        /\ LET g == The(pgRes.g)
               full == The(parseG(AllPresent(pg)).g)
           IN
           /\ pg.bp = "absent" => g.BP = 0
           /\ ~pg.stack => g.stackhi = 0 /\ g.stacklo = 0
           /\ ~pg.stkbar => g.stkbarVar = Nil
           /\ ~pg.stkbarPos => g.stkbarPos = 0
           /\ pg.bp = "value" => g.BP = full.BP
           /\ (pg.stack /\ pg.hi) => g.stackhi = full.stackhi
           /\ (pg.stack /\ pg.lo) => g.stacklo = full.stacklo
           /\ pg.stkbar => g.stkbarVar = full.stkbarVar
           /\ pg.stkbarPos => g.stkbarPos = full.stkbarPos
           /\ \A f \in (DOMAIN g) \ OptionalFields : g[f] = full[f]
           /\ g.ID = GStruct.goid /\ g.PC = GStruct.pc /\ g.SP = GStruct.sp

C5_Witness ==
    /\ pgRes.kind = "return" /\ pgRes.g # Nil /\ pgRes.err = NoErr
    /\ pg.bp = "absent" /\ ~pg.stack /\ ~pg.stkbar /\ ~pg.stkbarPos

\* C6: once the struct is loaded, parseG does not fail over the wait
\* reason: a string kind is taken verbatim, an integral kind goes through
\* the code-to-description lookup, and a wait reason with no value (the
\* field or its value absent) leaves WaitReason empty.
C6_WaitReason ==
    (Called /\ LoadRan /\ pg.unreadable = NoErr) =>
        /\ pgRes.kind = "return"
        /\ pgRes.err = NoErr
        /\ pgRes.g # Nil
        /\ The(pgRes.g).WaitReason =
              CASE pg.waitreason = "string" -> GStruct.waitstring
                [] pg.waitreason \in {"uint", "int"} -> ConstDescr(GStruct.waitcode)
                [] OTHER -> ""

\* What does hold: the field being there, with a string or unsigned kind
\* or no value
C6_WaitReasonPresent ==
    (Called /\ LoadRan /\ pg.unreadable = NoErr
     /\ pg.waitreason \in {"string", "uint", "novalue"}) =>
        /\ pgRes.kind = "return"
        /\ pgRes.err = NoErr
        /\ pgRes.g # Nil
        /\ The(pgRes.g).WaitReason =
              CASE pg.waitreason = "string" -> GStruct.waitstring
                [] pg.waitreason = "uint" -> ConstDescr(GStruct.waitcode)
                [] OTHER -> ""

\* C7: when the load of the goroutine struct marks the handle unreadable,
\* parseG returns that error unchanged and no record, and reads no field
\* and resolves no PC after the load; whenever parseG returns, it returns
\* exactly one of a record and an error.
C7_MandatoryLoad ==
    /\ (Called /\ LoadRan /\ pg.unreadable # NoErr) =>
          /\ pgRes.kind = "return"
          /\ pgRes.g = Nil
          /\ pgRes.err = pg.unreadable
          /\ pgRes.log[Len(pgRes.log)] = "loadValue"
          /\ StructReads(pgRes.log) \subseteq {"maybeDereference", "loadValue"}
    /\ pgRes.kind = "return" => ((pgRes.g = Nil) # (pgRes.err = NoErr))

C7_Witness ==
    /\ pgRes.kind = "return" /\ LoadRan /\ pg.ptrDepth = 2
    /\ pg.unreadable \in Unreadables /\ pgRes.err = pg.unreadable

-----------------------------------------------------------------------------
(* G.Go and G.StartLoc *)

MaxPC == 9

NotRun == [op |-> "none"]

GoLinePCNoBackup(gopc, fn) == gopc

\* G.Go, lines 91-98: back up to the CALL instruction
GoLinePC(gopc, fn) ==
    IF fn # Nil /\ gopc > The(fn).entry THEN gopc - 1 ELSE gopc

\* func (g *G) Go() Location; linePC is the pc handed to PCToLine
Go(g) ==
    LET pc == GoLinePC(g.GoPC, PCToFunc(g.fns, g.GoPC))
        l  == PCToLine(g.fns, pc)
    IN [op |-> "Go", linePC |-> pc,
        loc |-> [PC |-> g.GoPC, File |-> l.File, Line |-> l.Line, Fn |-> l.Fn]]

\* func (g *G) StartLoc() Location
StartLoc(g) ==
    LET l == PCToLine(g.fns, g.StartPC)
    IN [op |-> "StartLoc", linePC |-> g.StartPC,
        loc |-> [PC |-> g.StartPC, File |-> l.File, Line |-> l.Line, Fn |-> l.Fn]]

\* Symbol tables over the small address space
FnA == [name |-> "main.a", entry |-> 1, end |-> 4]
FnB == [name |-> "main.b", entry |-> 4, end |-> 6]
FnC == [name |-> "main.c", entry |-> 0, end |-> 1]
FnTables == SUBSET {FnA, FnB, FnC}

InitGo ==
    /\ gq \in [GoPC : 0..MaxPC, StartPC : {1, 4}, fns : FnTables]
    /\ gqRes = NotRun
    /\ pg = Idle /\ pgRes = Idle
    /\ OthersIdleG

GoCall ==
    /\ gqRes = NotRun
    /\ gqRes' = Go(gq)
    /\ UNCHANGED <<rd, ent, ret, enc, start, scan, prevCur, pg, pgRes, gq>>

StartLocCall ==
    /\ gqRes = NotRun
    /\ gqRes' = StartLoc(gq)
    /\ UNCHANGED <<rd, ent, ret, enc, start, scan, prevCur, pg, pgRes, gq>>

NextGo == GoCall \/ StartLocCall

SpecGo == InitGo /\ [][NextGo]_vars

GoFn == PCToFunc(gq.fns, gq.GoPC)

\* C8 as stated: the pc resolved is goCallerPC - 1 whenever goCallerPC is
\* past the entry of the function containing it, it is goCallerPC itself
\* only when goCallerPC is that entry, and the Location's PC is goCallerPC.
C8_SpawnLocationExact ==
    gqRes.op = "Go" =>
        /\ (GoFn # Nil /\ gq.GoPC > The(GoFn).entry) => gqRes.linePC = gq.GoPC - 1
        /\ gqRes.linePC = gq.GoPC => (GoFn # Nil /\ gq.GoPC = The(GoFn).entry)
        /\ gqRes.loc.PC = gq.GoPC

\* C8 amended: the pc resolved is goCallerPC itself only when goCallerPC
\* is the entry of its function or no function contains goCallerPC.
C8_SpawnLocation ==
    gqRes.op = "Go" =>
        /\ (GoFn # Nil /\ gq.GoPC > The(GoFn).entry) => gqRes.linePC = gq.GoPC - 1
        /\ gqRes.linePC = gq.GoPC => (GoFn = Nil \/ gq.GoPC = The(GoFn).entry)
        /\ gqRes.loc.PC = gq.GoPC

C8_Witness ==
    /\ gqRes.op = "Go" /\ GoFn # Nil /\ gq.GoPC > The(GoFn).entry
    /\ gqRes.linePC = gq.GoPC - 1 /\ gqRes.loc.PC = gq.GoPC
    /\ gqRes.loc.Fn = GoFn

C8_WitnessNoFunction ==
    gqRes.op = "Go" /\ GoFn = Nil /\ gqRes.linePC = gq.GoPC /\ gq.GoPC > 0

-----------------------------------------------------------------------------
(* G.UserCurrent *)

MaxFrames == 3

\* Function names, as their characters
NameMain == <<"m", "a", "i", "n", ".", "m", "a", "i", "n">>
NamePark == <<"r", "u", "n", "t", "i", "m", "e", ".", "g", "o", "p", "a", "r", "k">>
NameGosched == <<"r", "u", "n", "t", "i", "m", "e", ".", "G", "o", "s", "c", "h", "e", "d">>
NameDebug == <<"r", "u", "n", "t", "i", "m", "e", "/", "d", "e", "b", "u", "g", ".", "f">>
NameC == <<"c", "f", "u", "n", "c">>
Names == {NameMain, NamePark, NameGosched, NameDebug, NameC}
RuntimePrefix == <<"r", "u", "n", "t", "i", "m", "e", ".">>

\* strings.Contains(name, ".")
ContainsDot(name) == \E i \in 1..Len(name) : name[i] = "."

\* strings.HasPrefix(name, prefix)
HasPrefix(name, prefix) ==
    Len(name) >= Len(prefix) /\ SubSeq(name, 1, Len(prefix)) = prefix

\* isExportedRuntime(name): the runtime functions marked for display
isExportedRuntime(name) == name \in {NameGosched}

IsUserFrameNoExported(frame) ==
    /\ frame.Call.Fn # Nil
    /\ LET name == The(frame.Call.Fn).Name IN
       ContainsDot(name) /\ ~HasPrefix(name, RuntimePrefix)

\* G.UserCurrent, lines 78-83: the frame that is returned
IsUserFrame(frame) ==
    /\ frame.Call.Fn # Nil
    /\ LET name == The(frame.Call.Fn).Name IN
       ContainsDot(name) /\ (~HasPrefix(name, RuntimePrefix) \/ isExportedRuntime(name))

\* G.UserCurrent, lines 76-85: the loop over it.Next(); seen counts the
\* frames taken from the iterator
RECURSIVE UserLoop(_, _, _)
UserLoop(frames, i, current) ==
    IF i > Len(frames) THEN [loc |-> current, seen |-> Len(frames)]
    ELSE IF IsUserFrame(frames[i]) THEN [loc |-> frames[i].Call, seen |-> i]
    ELSE UserLoop(frames, i + 1, current)

\* func (g *G) UserCurrent() Location
UserCurrent(g) ==
    IF g.iterErr THEN [op |-> "UserCurrent", loc |-> g.CurrentLoc, seen |-> 0]
    ELSE [op |-> "UserCurrent"] @@ UserLoop(g.frames, 1, g.CurrentLoc)

ParkedLoc == [PC |-> 4096, File |-> "main.go", Line |-> 1, Fn |-> Some([Name |-> NamePark])]

\* The frames the stack iterator produces: the i-th frame's call location
Frame(i, fn) == [Call |-> [PC |-> 16 * i, File |-> "f.go", Line |-> i, Fn |-> fn]]
FrameFns == {Nil} \cup {Some([Name |-> n]) : n \in Names}
FrameLists ==
    UNION {{[i \in 1..n |-> Frame(i, f[i])] : f \in [1..n -> FrameFns]} : n \in 0..MaxFrames}

InitUserCurrent ==
    /\ gq \in [CurrentLoc : {ParkedLoc}, iterErr : BOOLEAN, frames : FrameLists]
    /\ gqRes = NotRun
    /\ pg = Idle /\ pgRes = Idle
    /\ OthersIdleG

UserCurrentCall ==
    /\ gqRes = NotRun
    /\ gqRes' = UserCurrent(gq)
    /\ UNCHANGED <<rd, ent, ret, enc, start, scan, prevCur, pg, pgRes, gq>>

NextUserCurrent == UserCurrentCall

SpecUserCurrent == InitUserCurrent /\ [][NextUserCurrent]_vars

\* A frame qualifies: it has a function whose name contains '.', and the
\* name does not start with "runtime." or is exported for display
Qualifies(frame) ==
    /\ frame.Call.Fn # Nil
    /\ LET name == The(frame.Call.Fn).Name IN
       /\ "." \in Range(name)
       /\ \/ \E i \in 1..Len(RuntimePrefix) : i > Len(name) \/ name[i] # RuntimePrefix[i]
          \/ isExportedRuntime(name)

\* C9: the result is the call location of the first qualifying frame, the
\* frames before it skipped and those after it not inspected; with no
\* iterator or no qualifying frame it is CurrentLoc.
C9_UserCurrent ==
    gqRes.op = "UserCurrent" =>
        LET q == {i \in 1..Len(gq.frames) : Qualifies(gq.frames[i])} IN
        IF gq.iterErr \/ q = {}
        THEN gqRes.loc = gq.CurrentLoc
        ELSE LET first == CHOOSE i \in q : \A j \in q : i <= j IN
             gqRes.loc = gq.frames[first].Call /\ gqRes.seen = first

C9_Witness ==
    /\ gqRes.op = "UserCurrent" /\ ~gq.iterErr /\ Len(gq.frames) = 3
    /\ gq.frames[1].Call.Fn = Some([Name |-> NamePark])
    /\ gq.frames[2].Call.Fn = Some([Name |-> NameGosched])
    /\ gq.frames[3].Call.Fn = Some([Name |-> NameMain])
    /\ gqRes.loc = gq.frames[2].Call /\ gqRes.seen = 2

-----------------------------------------------------------------------------
(* G.stkbar *)

MaxStkbar == 2

\* The elements of the stkbar slice as loadValue leaves them: each a struct
\* with its fields in order
FieldPtr(v) == [Name |-> "savedLRPtr", Value |-> v]
FieldVal(v) == [Name |-> "savedLRVal", Value |-> v]
StkbarChildren ==
    {[Children |-> <<FieldPtr(1), FieldVal(2)>>],
     [Children |-> <<FieldVal(4), FieldPtr(3)>>],
     [Children |-> <<FieldPtr(5)>>],
     [Children |-> <<FieldPtr(6), [Name |-> "pad", Value |-> 9], FieldVal(7)>>]}

\* stkbar, lines 128-137: the fields of one element, by name
RECURSIVE savedLROf(_, _, _)
savedLROf(fields, i, acc) ==
    IF i > Len(fields) THEN acc
    ELSE savedLROf(fields, i + 1,
            CASE fields[i].Name = "savedLRPtr" -> [acc EXCEPT !.ptr = fields[i].Value]
              [] fields[i].Name = "savedLRVal" -> [acc EXCEPT !.val = fields[i].Value]
              [] OTHER -> acc)

stkbarIgnoreUnreadable(g) ==
    IF g.stkbarVar = Nil THEN [list |-> <<>>, err |-> NoErr]
    ELSE LET v == The(g.stkbarVar) IN
         [list |-> [i \in 1..Len(v.Children) |->
                       savedLROf(v.Children[i].Children, 1, [ptr |-> 0, val |-> 0])],
          err |-> NoErr]

\* func (g *G) stkbar() ([]savedLR, error); a nil list is the empty one
stkbar(g) ==
    IF g.stkbarVar = Nil THEN [list |-> <<>>, err |-> NoErr]
    ELSE LET v == The(g.stkbarVar) IN
         IF v.Unreadable # NoErr
         THEN [list |-> <<>>, err |-> [type |-> "unreadable stkbar", cause |-> v.Unreadable]]
         ELSE [list |-> [i \in 1..Len(v.Children) |->
                           savedLROf(v.Children[i].Children, 1, [ptr |-> 0, val |-> 0])],
               err |-> NoErr]

\* stkbarVar after its loadValue: unset, unreadable, or its elements
StkbarVars ==
    {Nil} \cup
    {Some([Unreadable |-> u, Children |-> c]) :
        u \in {NoErr} \cup Unreadables, c \in SeqsUpTo(StkbarChildren, MaxStkbar)}

InitStkbar ==
    /\ gq \in [stkbarVar : StkbarVars, stkbarPos : {0, 1}]
    /\ gqRes = NotRun
    /\ pg = Idle /\ pgRes = Idle
    /\ OthersIdleG

StkbarCall ==
    /\ gqRes = NotRun
    /\ gqRes' = [op |-> "stkbar"] @@ stkbar(gq)
    /\ UNCHANGED <<rd, ent, ret, enc, start, scan, prevCur, pg, pgRes, gq>>

NextStkbar == StkbarCall

SpecStkbar == InitStkbar /\ [][NextStkbar]_vars

\* The value of the field called name in an element, 0 when it has none
FieldValue(child, name) ==
    IF \E i \in 1..Len(child.Children) : child.Children[i].Name = name
    THEN (CHOOSE f \in Range(child.Children) : f.Name = name).Value
    ELSE 0

StkbarAbsent == gq.stkbarVar = Nil
StkbarReadable == gq.stkbarVar # Nil /\ The(gq.stkbarVar).Unreadable = NoErr
StkbarUnreadable == gq.stkbarVar # Nil /\ The(gq.stkbarVar).Unreadable # NoErr

\* C10: stkbar() gives an empty list and no error exactly when the field is
\* absent or is present and loads to zero elements; a field whose load
\* marks it unreadable gives an error naming the cause and no list; a
\* readable field gives one (savedLRPtr, savedLRVal) pair per element, in
\* element order.
C10_Stkbar ==
    gqRes.op = "stkbar" =>
        /\ (gqRes.list = <<>> /\ gqRes.err = NoErr) <=>
              (StkbarAbsent \/ (StkbarReadable /\ The(gq.stkbarVar).Children = <<>>))
        /\ StkbarUnreadable =>
              /\ gqRes.err # NoErr
              /\ gqRes.err.cause = The(gq.stkbarVar).Unreadable
              /\ gqRes.list = <<>>
        /\ StkbarReadable =>
              LET c == The(gq.stkbarVar).Children IN
              /\ gqRes.err = NoErr
              /\ Len(gqRes.list) = Len(c)
              /\ \A i \in 1..Len(c) :
                    /\ gqRes.list[i].ptr = FieldValue(c[i], "savedLRPtr")
                    /\ gqRes.list[i].val = FieldValue(c[i], "savedLRVal")

C10_Witness ==
    /\ gqRes.op = "stkbar" /\ StkbarReadable /\ gqRes.err = NoErr
    /\ gqRes.list = <<[ptr |-> 3, val |-> 4], [ptr |-> 1, val |-> 2]>>

C10_WitnessUnreadable ==
    /\ gqRes.op = "stkbar" /\ StkbarUnreadable /\ gqRes.err # NoErr
    /\ The(gq.stkbarVar).Children = <<>>

=============================================================================
